---- MODULE Spec2Model ----
(***************************************************************************)
(* Model of app_4plots.py: a Streamlit script that loads three rental      *)
(* CSV files into one unified table (load_data, cached), slices it by      *)
(* housing type and two districts, and prepares four plots.  The script    *)
(* is re-executed top to bottom after every user interaction.              *)
(*                                                                         *)
(* Column names are ASCII stand-ins for the Korean headers of the source:  *)
(*   "htype"         = 주택유형        "sigungu" = 시군구                  *)
(*   "gu"            = 구              "deposit" = 보증금(만원)            *)
(*   "rent"          = 월세금(만원)    "year"    = 건축년도                *)
(*   "rent_per_area" = 전용면적당 월세(만원/㎡)                            *)
(*   "name"          = 단지명          "bname"   = 건물명                  *)
(* Housing-type labels: "APT" = 아파트, "OPI" = 오피스텔,                  *)
(* "DSD" = 연립다세대, "ALL" = 전체.  The city marker 서울 is carried by   *)
(* the address token "SeoulCity" (서울특별시).                             *)
(*                                                                         *)
(* A table (DataFrame) is [cols, rows]; rows is a sequence of groups       *)
(* [r, first, n]: n consecutive identical rows r whose index labels are    *)
(* first .. first+n-1.  A missing numeric cell is NaN (the empty tuple), a *)
(* number v is <<v>>; a missing text cell is NaNStr.  A listing name is a  *)
(* sequence of characters, <<>> when missing.                              *)
(***************************************************************************)
EXTENDS Integers, Sequences, FiniteSets, TLC

\* ------------------------------------------------------------------ bounds
\* Size of the large run of identical rows in the big input file.
BigN == 201
\* Number of user interactions (script reruns after the first run) explored.
MaxInteractions == 2

\* ------------------------------------------------------------------ values
NaN == <<>>
NaNStr == "NaN"
Num(v) == <<v>>
IsNum(x) == x # NaN
Val(x) == x[1]

TextCols == {"htype", "gu"}
NaNOf(c) == IF c \in TextCols THEN NaNStr ELSE NaN

\* A row restricted to the columns cols: a cell of any other column is missing.
Blank(r, cols) == [c \in DOMAIN r |-> IF c \in cols THEN r[c] ELSE NaNOf(c)]

RECURSIVE SumN(_)
SumN(gs) == IF gs = <<>> THEN 0 ELSE Head(gs).n + SumN(Tail(gs))

\* len(df)
NRows(t) == SumN(t.rows)

RECURSIVE Reindex(_, _)
Reindex(gs, start) ==
    IF gs = <<>> THEN <<>>
    ELSE <<[Head(gs) EXCEPT !.first = start]>> \o Reindex(Tail(gs), start + Head(gs).n)

MapRows(t, f(_)) ==
    [t EXCEPT !.rows = [i \in DOMAIN t.rows |-> [t.rows[i] EXCEPT !.r = f(t.rows[i].r)]]]

\* df[mask]: the rows that satisfy p, index labels kept.
FilterRows(t, p(_)) ==
    [t EXCEPT !.rows = SelectSeq(t.rows, LAMBDA g : p(g.r))]

\* pd.DataFrame()
EmptyFrame == [cols |-> {}, rows |-> <<>>]

\* df.empty: no rows or no columns.
IsEmpty(t) == NRows(t) = 0 \/ t.cols = {}

\* ------------------------------------------------------------------ loader
file_paths == <<"APT", "OPI", "DSD">>

keep_cols == {"htype", "sigungu", "gu", "deposit", "rent", "year"}

\* Address tokens that contain the city marker.
MarkerTokens == {"SeoulCity"}

Digits == {"0", "1", "2", "3", "4", "5", "6", "7", "8", "9"}
DigitVal(c) ==
    CASE c = "0" -> 0 [] c = "1" -> 1 [] c = "2" -> 2 [] c = "3" -> 3 [] c = "4" -> 4
      [] c = "5" -> 5 [] c = "6" -> 6 [] c = "7" -> 7 [] c = "8" -> 8 [] c = "9" -> 9

RECURSIVE ParseNat(_, _)
ParseNat(s, acc) ==
    IF s = <<>> THEN acc ELSE ParseNat(Tail(s), acc * 10 + DigitVal(Head(s)))

AllDigits(s) == s # <<>> /\ \A i \in DOMAIN s : s[i] \in Digits

\* .astype(str) of a raw cell: a missing cell becomes the text "nan".
astype_str(cell) == IF cell = <<>> THEN <<"n", "a", "n">> ELSE cell

\* .str.replace(",", "", regex=False)
str_replace(s) == SelectSeq(s, LAMBDA c : c # ",")

\* pd.to_numeric(errors="coerce"): a decimal integer, else missing.
to_numeric(s) ==
    IF AllDigits(s) THEN Num(ParseNat(s, 0))
    ELSE IF Len(s) > 1 /\ Head(s) = "-" /\ AllDigits(Tail(s)) THEN Num(0 - ParseNat(Tail(s), 0))
    ELSE NaN

\* .astype(str).str.split() of an address cell (a sequence of tokens).
str_split(addr) == IF addr = <<>> THEN <<"nan">> ELSE addr

\* .astype(str).str.contains("서울")
str_contains(addr) == \E i \in DOMAIN str_split(addr) : str_split(addr)[i] \in MarkerTokens

\* pd.read_csv: the file's columns and rows, index 0..n-1.
read_csv(f) ==
    [cols |-> f.cols,
     rows |-> Reindex([i \in DOMAIN f.rows |->
                          [f.rows[i] EXCEPT !.r = Blank(f.rows[i].r, f.cols)]], 0)]

AddHtype(t, htype) ==
    IF "htype" \notin t.cols
    THEN MapRows([t EXCEPT !.cols = @ \cup {"htype"}], LAMBDA r : [r EXCEPT !.htype = htype])
    ELSE t

DeriveGu(t) ==
    IF "gu" \notin t.cols /\ "sigungu" \in t.cols
    THEN MapRows([t EXCEPT !.cols = @ \cup {"gu"}],
                 LAMBDA r : [r EXCEPT !.gu = IF Len(str_split(r.sigungu)) >= 2
                                               THEN str_split(r.sigungu)[2]
                                               ELSE NaNStr])
    ELSE t

CoerceCol(t, col) ==
    IF col \in t.cols
    THEN MapRows(t, LAMBDA r : [r EXCEPT ![col] = to_numeric(str_replace(astype_str(r[col])))])
    ELSE t

Coerce(t) == CoerceCol(CoerceCol(CoerceCol(t, "deposit"), "rent"), "year")

FilterSeoul(t) ==
    IF "sigungu" \in t.cols THEN FilterRows(t, LAMBDA r : str_contains(r.sigungu)) ELSE t

\* A loader without the positive-rent filter.
FilterRent_skipped(t) == t

FilterRent(t) ==
    IF "rent" \in t.cols THEN FilterRows(t, LAMBDA r : IsNum(r.rent) /\ Val(r.rent) > 0) ELSE t

\* The body of load_data's loop for one existing file.
load_file(htype, f) ==
    FilterRent(FilterSeoul(Coerce(DeriveGu(AddHtype(read_csv(f), htype)))))

RECURSIVE UnionCols(_)
UnionCols(dfs) == IF dfs = <<>> THEN {} ELSE Head(dfs).cols \cup UnionCols(Tail(dfs))

RECURSIVE ConcatRows(_, _)
ConcatRows(dfs, cols) ==
    IF dfs = <<>> THEN <<>>
    ELSE MapRows(Head(dfs), LAMBDA r : Blank(r, Head(dfs).cols)).rows \o ConcatRows(Tail(dfs), cols)

\* pd.concat(dfs, ignore_index=True): column union, index renumbered.
concat(dfs) ==
    [cols |-> UnionCols(dfs), rows |-> Reindex(ConcatRows(dfs, UnionCols(dfs)), 0)]

\* df[keep_cols].copy()
Project(t, keep) ==
    MapRows([t EXCEPT !.cols = @ \cap keep], LAMBDA r : Blank(r, t.cols \cap keep))

\* A loader that skips a missing file without a warning.
on_missing_silent(rest, h) == rest

\* Lines 59-61: a missing file is warned about and skipped.
on_missing(rest, h) == [rest EXCEPT !.warnings = <<h>> \o @]

\* The loop of load_data over file_paths: the cleaned tables of the files
\* that exist, in order, and one warning per missing file.
RECURSIVE LoadLoop(_, _)
LoadLoop(fs, i) ==
    IF i > Len(file_paths) THEN [dfs |-> <<>>, warnings |-> <<>>]
    ELSE LET rest == LoadLoop(fs, i + 1)
             h == file_paths[i]
         IN IF ~fs[h].exists
            THEN on_missing(rest, h)
            ELSE [rest EXCEPT !.dfs = <<load_file(h, fs[h])>> \o @]

load_data(fs) ==
    LET loop == LoadLoop(fs, 1)
    IN [df |-> IF loop.dfs = <<>> THEN EmptyFrame ELSE Project(concat(loop.dfs), keep_cols),
        warnings |-> loop.warnings]

\* ------------------------------------------------------------------ inputs
AddrA == <<"SeoulCity", "GuA", "Dong1">>
AddrB == <<"SeoulCity", "GuB", "Dong2">>
AddrBusan == <<"BusanCity", "GuC", "Dong3">>
AddrShort == <<"SeoulCity">>

Row(ht, addr, gu, dep, rent, yr, ppa) ==
    [htype |-> ht, sigungu |-> addr, gu |-> gu, deposit |-> dep, rent |-> rent,
     year |-> yr, rent_per_area |-> ppa, name |-> NaN, bname |-> NaN]
G(r, n) == [r |-> r, first |-> 0, n |-> n]

\* A few contracts of every kind: thousands separators, a rent that does not
\* parse, a non-positive rent, missing cells, an address outside the city,
\* an address of one token.
SmallRows ==
    << G(Row("APT", AddrA, "GuA", <<"1", ",", "0", "0", "0">>, <<"5", "0">>,
             <<"2", "0", "0", "5">>, Num(2)), 1),
       G(Row("OPI", AddrB, "GuB", <<"0">>, <<"1", ",", "2", "0", "0">>,
             <<"1", "9", "9", "0">>, Num(3)), 1),
       G(Row("APT", AddrBusan, "GuC", <<"5", "0", "0">>, <<"7", "0">>,
             <<"2", "0", "1", "5">>, Num(1)), 1),
       G(Row("APT", AddrA, "GuA", <<"5", "0", "0">>, <<"a", "b", "c">>,
             <<"2", "0", "1", "0">>, NaN), 1),
       G(Row("Villa", AddrB, "GuB", <<"3", "0", "0">>, <<"-", "5">>,
             <<"2", "0", "0", "0">>, Num(1)), 1),
       G(Row(NaNStr, AddrB, "GuB", <<>>, <<"6", "0">>, <<>>, Num(2)), 2),
       G(Row("APT", AddrShort, NaNStr, <<"2", "0", "0">>, <<"4", "0">>,
             <<"2", "0", "0", "6">>, Num(1)), 1) >>

\* One district only.
OneGuRows ==
    << G(Row("APT", AddrA, "GuA", <<"1", "0", "0">>, <<"3", "0">>,
             <<"2", "0", "0", "5">>, Num(1)), 2),
       G(Row("APT", AddrA, "GuA", <<"2", "0", "0">>, <<"4", "5">>,
             <<"1", "9", "9", "9">>, Num(1)), 1) >>

\* Many cheap contracts in one district and one expensive contract in another.
BigRows ==
    << G(Row("APT", AddrB, "GuB", <<"1", "0", "0">>, <<"1", "0">>,
             <<"2", "0", "1", "0">>, Num(1)), BigN),
       G(Row("APT", AddrA, "GuA", <<"5", "0", "0">>, <<"1", ",", "0", "0", "0">>,
             <<"1", "9", "9", "0">>, Num(9)), 1) >>

\* The listing names of the contracts of BigRows: a sequence of characters
\* per group, <<>> where the cell is missing.
ListingNames == << <<"H", "i", "l", "l">>, <<>> >>

\* The same contracts with the listing-name column filled in.
Named(gs, names) == [i \in DOMAIN gs |-> [gs[i] EXCEPT !.r.name = names[i]]]

File(cols, rows) == [exists |-> TRUE, cols |-> cols, rows |-> rows]
NoFile == [exists |-> FALSE, cols |-> {}, rows |-> <<>>]

UsualCols == {"sigungu", "deposit", "rent", "year"}

\* The contents the first file is drawn from: every kind of column set.
WideChoices ==
    { NoFile,
      File(UsualCols, SmallRows),
      File(UsualCols \cup {"rent_per_area"}, SmallRows),
      File(UsualCols \cup {"htype"}, SmallRows),
      File({"sigungu", "deposit", "year"}, SmallRows),
      File({"gu", "deposit", "rent", "year"}, SmallRows),
      File({"deposit", "rent", "year"}, SmallRows),
      File({"sigungu", "rent"}, SmallRows),
      File(UsualCols, OneGuRows),
      File(UsualCols, <<>>),
      File(UsualCols, BigRows),
      File(UsualCols \cup {"name"}, Named(BigRows, ListingNames)) }

NarrowChoices ==
    { NoFile,
      File(UsualCols, SmallRows),
      File({"sigungu", "deposit", "year"}, SmallRows),
      File({"deposit", "rent", "year"}, OneGuRows) }

Inputs == [APT : WideChoices, OPI : NarrowChoices, DSD : NarrowChoices]

\* ------------------------------------------------------------------ helpers
\* Python's sorted() over the text values that occur.
SortOrder == <<"APT", "DSD", "GuA", "GuB", "GuC", "OPI", "Villa">>
sorted(S) == SelectSeq(SortOrder, LAMBDA s : s \in S)

\* df[col].dropna().unique()
Unique(t, col) == { t.rows[i].r[col] : i \in DOMAIN t.rows } \ {NaNStr}

\* df[df[col] == v].copy()
Eq(t, col, v) == FilterRows(t, LAMBDA r : r[col] = v)

\* d[col].dropna(): the values with their multiplicities.
DropNa(t, col) ==
    LET sel == SelectSeq(t.rows, LAMBDA g : IsNum(g.r[col]))
    IN [i \in DOMAIN sel |-> [v |-> Val(sel[i].r[col]), n |-> sel[i].n]]

Positive(vs) == SelectSeq(vs, LAMBDA e : e.v > 0)

RECURSIVE CountLE(_, _)
CountLE(vs, x) ==
    IF vs = <<>> THEN 0
    ELSE (IF Head(vs).v <= x THEN Head(vs).n ELSE 0) + CountLE(Tail(vs), x)

\* The k-th smallest value (k from 0) of a non-empty array.
ValueAt(vs, k) ==
    LET S == { vs[i].v : i \in DOMAIN vs }
    IN CHOOSE v \in S : CountLE(vs, v) > k /\ \A w \in S : w < v => CountLE(vs, w) <= k

\* The index label of the row at position pos (from 0).
RECURSIVE LabelAt(_, _)
LabelAt(gs, pos) ==
    IF pos < Head(gs).n THEN Head(gs).first + pos ELSE LabelAt(Tail(gs), pos - Head(gs).n)

\* ------------------------------------------------------------------ widgets
\* st.slider("bin 개수", min_value=10, max_value=60, value=30, step=5)
BINS_MIN == 10
BINS_MAX == 60
BINS_STEP == 5
BINS_DEFAULT == 30
BinValues == { b \in BINS_MIN..BINS_MAX : (b - BINS_MIN) % BINS_STEP = 0 }
\* The slider positions a user is taken to try.
BinChoices == {BINS_MIN, BINS_DEFAULT}

\* st.slider("표시할 최대 점 개수", min_value=200, max_value=5000, value=2000, step=200)
POINTS_MIN == 200
POINTS_MAX == 5000
POINTS_STEP == 200
POINTS_DEFAULT == 2000
PointValues == { m \in POINTS_MIN..POINTS_MAX : (m - POINTS_MIN) % POINTS_STEP = 0 }
PointChoices == {POINTS_MIN, POINTS_DEFAULT}

\* datetime.now().year: the years a session may run in.
Years == {2025, 2026}

\* ------------------------------------------------------------------ subsets
\* df[df["주택유형"] == selected_housing].copy(), or df.copy() for "전체".
filter_housing(t, h) == IF h # "ALL" THEN Eq(t, "htype", h) ELSE t

\* ------------------------------------------------------------------ histogram
PCT == 99

\* np.percentile(all_rent, 99) by linear interpolation, times 100.
percentile(vs) ==
    LET n == SumN(vs)
        pos == PCT * (n - 1)
        k == pos \div 100
        frac == pos % 100
        lo == ValueAt(vs, k)
        hi == ValueAt(vs, IF k + 1 < n THEN k + 1 ELSE k)
    IN 100 * lo + frac * (hi - lo)

\* A histogram whose last bin is open on the right.
BinOf_open(v, x100, bins) == (v * 100 * bins) \div x100

\* np.histogram(range=(0, x_max)): the last bin is closed on the right.
BinOf(v, x100, bins) ==
    LET i == (v * 100 * bins) \div x100 IN IF i = bins THEN bins - 1 ELSE i

\* Bar heights of ax.hist(data, bins, range=(0, x_max), weights=100/len(data)),
\* in units of 1/len(data) percent.
hist_heights(data, x100, bins) ==
    [b \in 0..(bins - 1) |->
        100 * SumN(SelectSeq(data, LAMBDA e : /\ e.v >= 0
                                              /\ e.v * 100 <= x100
                                              /\ BinOf(e.v, x100, bins) = b))]

\* One pass of the loop over datasets in tab_hist.
hist_panel(d, x100, bins) ==
    LET data0 == Positive(DropNa(d, "rent"))
        data == SelectSeq(data0, LAMBDA e : e.v * 100 <= x100)
    IN IF SumN(data0) = 0
       THEN [kind |-> "placeholder", n |-> 0, heights |-> <<>>]
       ELSE [kind |-> "hist", n |-> SumN(data), heights |-> hist_heights(data, x100, bins)]

\* The histogram tab's output; x_max is kept times 100.
NoHist == [status |-> "none", x_max |-> 0, bins |-> 0, panels |-> <<>>]

\* ------------------------------------------------------------------ box plot
AGE_CUTOFF == 20

age_group(age) == IF age <= AGE_CUTOFF THEN "new" ELSE "old"

\* An add_age_group that keeps the rows without a construction year:
\* np.where on a missing age is False, the row is labelled "old".
add_age_group_keep_nan(d, rent_col, current_year) ==
    LET d2 == FilterRows(d, LAMBDA r : IsNum(r[rent_col]))
    IN MapRows(d2, LAMBDA r : [c \in DOMAIN r \cup {"age", "age_group"} |->
                                 IF c = "age"
                                 THEN (IF IsNum(r.year) THEN current_year - Val(r.year) ELSE 0)
                                 ELSE IF c = "age_group"
                                      THEN (IF IsNum(r.year)
                                            THEN age_group(current_year - Val(r.year))
                                            ELSE "old")
                                 ELSE r[c]])

\* add_age_group: rows with both a construction year and the rent measure,
\* with their age and age group.
add_age_group(d, rent_col, current_year) ==
    LET d2 == FilterRows(d, LAMBDA r : IsNum(r.year) /\ IsNum(r[rent_col]))
    IN MapRows(d2, LAMBDA r : [c \in DOMAIN r \cup {"age", "age_group"} |->
                                 IF c = "age" THEN current_year - Val(r.year)
                                 ELSE IF c = "age_group"
                                      THEN age_group(current_year - Val(r.year))
                                 ELSE r[c]])

\* d["연식그룹"].value_counts().reindex([new, old]): a bucket without rows is NaN.
value_counts(d) ==
    LET cnt(b) == SumN(SelectSeq(d.rows, LAMBDA g : g.r.age_group = b))
    IN [b \in {"new", "old"} |-> IF cnt(b) = 0 THEN NaN ELSE Num(cnt(b))]

\* counts.sum() skips NaN.
counts_sum(c) == (IF IsNum(c["new"]) THEN Val(c["new"]) ELSE 0)
                 + (IF IsNum(c["old"]) THEN Val(c["old"]) ELSE 0)

nunique(d) == Cardinality({ d.rows[i].r.age_group : i \in DOMAIN d.rows })

box_region(d, rent_col, current_year) ==
    LET d2 == add_age_group(d, rent_col, current_year)
    IN IF NRows(d2) = 0
       THEN [d |-> d2, bar |-> "placeholder", counts |-> [b \in {"new", "old"} |-> NaN],
             n |-> 0, boxplot |-> "placeholder"]
       ELSE [d |-> d2, bar |-> "bar", counts |-> value_counts(d2),
             n |-> counts_sum(value_counts(d2)),
             boxplot |-> IF nunique(d2) < 2 THEN "placeholder" ELSE "boxplot"]

NoBox == [status |-> "none", rent_col |-> NaNStr, current_year |-> 0, regions |-> <<>>]

\* ------------------------------------------------------------------ scatter
SEED == 42

\* A sample drawn from numpy's global generator (random_state=None).
random_state_global(seed, global) == global

\* The generator d.sample(..., random_state=42) draws from: a fresh one made
\* from the seed, whatever the state of numpy's global generator.
random_state(seed, global) == seed

\* permutation(n)[:k] of a generator in state s: k distinct positions of 0..n-1.
choice(n, k, s) == [i \in 1..k |-> (s + i - 1) % n]

prep_scatter(d, max_points, global) ==
    LET f == FilterRows(d, LAMBDA r : /\ IsNum(r.deposit) /\ IsNum(r.rent)
                                      /\ Val(r.deposit) > 0 /\ Val(r.rent) > 0)
        n == NRows(f)
        pos == IF n > max_points
               THEN choice(n, max_points, random_state(SEED, global))
               ELSE [i \in 1..n |-> i - 1]
    IN [i \in DOMAIN pos |-> LabelAt(f.rows, pos[i])]

NoScatter == [status |-> "none", max_points |-> 0, regions |-> <<>>]

\* ------------------------------------------------------------------ Q-Q plot
QQ_MIN == 10

\* Lines 464-468: the first of the listing-name columns the table carries.
NameCols == <<"name", "bname">>
building_col(t) ==
    LET found == SelectSeq(NameCols, LAMBDA c : c \in t.cols)
    IN IF found = <<>> THEN NaNStr ELSE Head(found)

\* case=False: both sides are lowered before they are compared.
lower(c) ==
    CASE c = "H" -> "h" [] c = "I" -> "i" [] c = "L" -> "l" [] c = "N" -> "n"
      [] c = "A" -> "a" [] OTHER -> c
lower_str(s) == [i \in DOMAIN s |-> lower(s[i])]

\* .str.contains(text, case=False) for a text without regex metacharacters.
contains(hay, text) ==
    \E k \in 0..(Len(hay) - Len(text)) :
       lower_str(SubSeq(hay, k + 1, k + Len(text))) = lower_str(text)

\* The index labels of a sequence of row groups.
Labels(gs) == UNION { gs[i].first .. (gs[i].first + gs[i].n - 1) : i \in DOMAIN gs }

\* Lines 481-489: the rows whose listing name, as text, contains the search
\* text; a missing name is the text "nan".
find_idx(d, col, text) ==
    IF text = <<>> THEN <<>>
    ELSE SelectSeq(d.rows, LAMBDA g : contains(astype_str(g.r[col]), text))

\* Lines 504-559: one Q-Q panel. The points are the rows with a rent; the
\* highlighted points are those whose label is in highlight_idx, and at most
\* three of them are annotated with the listing name.
qq_plot(d, col, highlight_idx) ==
    LET data == SelectSeq(d.rows, LAMBDA g : IsNum(g.r.rent))
        n == SumN(data)
        pts == SelectSeq(data, LAMBDA g : g.first \in Labels(highlight_idx))
        k == SumN(pts)
    IN IF n < QQ_MIN
       THEN [kind |-> "placeholder", n |-> n, highlighted |-> {}, labelled |-> 0]
       ELSE [kind |-> "qq", n |-> n, highlighted |-> Labels(pts),
             labelled |-> IF col # NaNStr /\ col \in d.cols
                          THEN (IF k < 3 THEN k ELSE 3) ELSE 0]

NoQQ == [status |-> "none", searchable |-> FALSE, text |-> <<>>, panels |-> <<>>]

\* ------------------------------------------------------------------ state
VARIABLES
    files,             \* the three source files (never written)
    cache,             \* st.cache_data's entry for load_data
    loadCount,         \* how many times load_data's body ran
    first_df,          \* the table the first load produced
    left,              \* interactions still to explore
    w,                 \* widget values kept by the session
    pc,                \* position of the script run
    rendered,          \* the widgets this run has rendered
    messages,          \* st.warning / st.error of this run
    crash,             \* the exception that ended this run, if any
    df, housing_types, selected_housing, df_filtered, all_gu, gu_a, gu_b,
    seoul, df_a, df_b,
    hist, box, scatter, qq

session == <<files, cache, loadCount, first_df, left, w>>
subsets == <<housing_types, selected_housing, df_filtered, all_gu, gu_a, gu_b, seoul, df_a, df_b>>
plots == <<hist, box, scatter, qq>>
vars == <<session, pc, rendered, messages, crash, df, subsets, plots>>

NoCache == [hit |-> FALSE, df |-> EmptyFrame, warnings |-> <<>>]

DefaultWidgets ==
    [housing |-> "ALL",
     gu_a |-> [opts |-> <<>>, v |-> NaNStr],
     gu_b |-> [opts |-> <<>>, v |-> NaNStr],
     bins |-> BINS_DEFAULT,
     max_points |-> POINTS_DEFAULT,
     search |-> <<>>]

\* The state of a script run before its first line.
RunStart ==
    /\ pc = "load"
    /\ rendered = {}
    /\ messages = <<>>
    /\ crash = "none"
    /\ df = EmptyFrame
    /\ housing_types = <<>>
    /\ selected_housing = "ALL"
    /\ df_filtered = EmptyFrame
    /\ all_gu = <<>>
    /\ gu_a = NaNStr
    /\ gu_b = NaNStr
    /\ seoul = EmptyFrame
    /\ df_a = EmptyFrame
    /\ df_b = EmptyFrame
    /\ hist = NoHist
    /\ box = NoBox
    /\ scatter = NoScatter
    /\ qq = NoQQ

SessionStart ==
    /\ cache = NoCache
    /\ loadCount = 0
    /\ first_df = EmptyFrame
    /\ w = DefaultWidgets

Init == files \in Inputs /\ left = MaxInteractions /\ SessionStart /\ RunStart

Msg(level, what, arg) == [level |-> level, what |-> what, arg |-> arg]

\* load_data without the cache decorator: every call misses.
st_cache_disabled(c) == [c EXCEPT !.hit = FALSE]

\* @st.cache_data: the entry a call of load_data finds.
st_cache_data(c) == c

\* Line 114: df = load_data(), through the cache.
RunLoadData ==
    /\ pc = "load"
    /\ LET c == st_cache_data(cache)
           res == IF c.hit THEN [df |-> c.df, warnings |-> c.warnings] ELSE load_data(files)
       IN /\ cache' = [hit |-> TRUE, df |-> res.df, warnings |-> res.warnings]
          /\ loadCount' = IF c.hit THEN loadCount ELSE loadCount + 1
          /\ first_df' = IF loadCount = 0 THEN res.df ELSE first_df
          /\ df' = res.df
          /\ messages' = [i \in DOMAIN res.warnings |->
                             Msg("warning", "missing_file", res.warnings[i])]
    /\ pc' = "check"
    /\ UNCHANGED <<files, left, w, rendered, crash, subsets, plots>>

\* Lines 116-118: an empty table stops the run.
CheckEmpty ==
    /\ pc = "check"
    /\ IF IsEmpty(df)
       THEN /\ messages' = Append(messages, Msg("error", "no_data", NaNStr))
            /\ pc' = "stopped"
       ELSE /\ pc' = "sidebar"
            /\ UNCHANGED messages
    /\ UNCHANGED <<session, rendered, crash, df, subsets, plots>>

\* Lines 125-132: housing-type selectbox and filter.
Sidebar ==
    /\ pc = "sidebar"
    /\ LET types == <<"ALL">> \o sorted(Unique(df, "htype"))
           sel == IF \E i \in DOMAIN types : types[i] = w.housing THEN w.housing ELSE "ALL"
       IN /\ housing_types' = types
          /\ selected_housing' = sel
          /\ df_filtered' = filter_housing(df, sel)
          /\ w' = [w EXCEPT !.housing = sel]
    /\ rendered' = rendered \cup {"housing"}
    /\ pc' = "districts"
    /\ UNCHANGED <<files, cache, loadCount, first_df, left, messages, crash, df,
                   all_gu, gu_a, gu_b, seoul, df_a, df_b, plots>>

\* Lines 135-139: the district list; fewer than two districts stops the run.
Districts ==
    /\ pc = "districts"
    /\ IF "gu" \notin df_filtered.cols
       THEN /\ crash' = "KeyError_gu"
            /\ pc' = "crashed"
            /\ UNCHANGED <<all_gu, messages>>
       ELSE LET gus == sorted(Unique(df_filtered, "gu"))
            IN /\ all_gu' = gus
               /\ IF Len(gus) < 2
                  THEN /\ messages' = Append(messages, Msg("error", "few_districts", NaNStr))
                       /\ pc' = "stopped"
                  ELSE /\ pc' = "subsets"
                       /\ UNCHANGED messages
               /\ UNCHANGED crash
    /\ UNCHANGED <<session, rendered, df, housing_types, selected_housing, df_filtered,
                   gu_a, gu_b, seoul, df_a, df_b, plots>>

\* A selectbox over opts: the kept value while the options are the same,
\* else the default.
selectbox(state, opts, default) == IF state.opts = opts THEN state.v ELSE default

\* Lines 144-156: district selectboxes and the three subsets.
Subsets ==
    /\ pc = "subsets"
    /\ LET a == selectbox(w.gu_a, all_gu, all_gu[1])
           b == selectbox(w.gu_b, all_gu, all_gu[2])
       IN /\ gu_a' = a
          /\ gu_b' = b
          /\ w' = [w EXCEPT !.gu_a = [opts |-> all_gu, v |-> a],
                            !.gu_b = [opts |-> all_gu, v |-> b]]
          /\ messages' = IF a = b THEN Append(messages, Msg("warning", "same_district", a))
                         ELSE messages
          /\ seoul' = df_filtered
          /\ df_a' = Eq(df_filtered, "gu", a)
          /\ df_b' = Eq(df_filtered, "gu", b)
    /\ rendered' = rendered \cup {"gu_a", "gu_b"}
    /\ pc' = "hist"
    /\ UNCHANGED <<files, cache, loadCount, first_df, left, crash, df, housing_types,
                   selected_housing, df_filtered, all_gu, plots>>

\* Lines 168-246: the histogram tab.
TabHist ==
    /\ pc = "hist"
    /\ rendered' = rendered \cup {"bins"}
    /\ IF "rent" \notin seoul.cols
       THEN /\ crash' = "KeyError_rent"
            /\ pc' = "crashed"
            /\ UNCHANGED <<hist, messages>>
       ELSE LET all_rent == Positive(DropNa(seoul, "rent") \o DropNa(df_a, "rent")
                                     \o DropNa(df_b, "rent"))
            IN /\ IF SumN(all_rent) = 0
                  THEN /\ messages' = Append(messages, Msg("warning", "no_rent_data", NaNStr))
                       /\ hist' = [NoHist EXCEPT !.status = "warning", !.bins = w.bins]
                  ELSE /\ hist' = [status |-> "plotted",
                                   x_max |-> percentile(all_rent),
                                   bins |-> w.bins,
                                   panels |-> [i \in 1..3 |->
                                       hist_panel(<<seoul, df_a, df_b>>[i],
                                                  percentile(all_rent), w.bins)]]
                       /\ UNCHANGED messages
               /\ pc' = "box"
               /\ UNCHANGED crash
    /\ UNCHANGED <<session, df, subsets, box, scatter, qq>>

\* Lines 257-266: the rent measure of the box plot.
rent_measure(cols) ==
    IF "rent_per_area" \in cols THEN "rent_per_area"
    ELSE IF "rent" \in cols THEN "rent"
    ELSE NaNStr

\* Lines 250-404: the box-plot tab.
TabBox ==
    /\ pc = "box"
    /\ IF "year" \notin df_filtered.cols
       THEN /\ messages' = Append(messages, Msg("warning", "no_year_column", NaNStr))
            /\ box' = [NoBox EXCEPT !.status = "no_year_column"]
            /\ pc' = "scatter"
       ELSE IF rent_measure(df_filtered.cols) = NaNStr
       THEN /\ messages' = Append(messages, Msg("warning", "no_rent_column", NaNStr))
            /\ box' = [NoBox EXCEPT !.status = "no_rent_column"]
            /\ pc' = "stopped"
       ELSE IF SumN(DropNa(df_filtered, "year")) = 0
       THEN /\ messages' = Append(messages, Msg("warning", "no_valid_years", NaNStr))
            /\ box' = [NoBox EXCEPT !.status = "no_valid_years",
                                    !.rent_col = rent_measure(df_filtered.cols)]
            /\ pc' = "scatter"
       ELSE \E y \in Years :
            /\ box' = [status |-> "plotted",
                       rent_col |-> rent_measure(df_filtered.cols),
                       current_year |-> y,
                       regions |-> [i \in 1..3 |->
                           box_region(<<seoul, df_a, df_b>>[i],
                                      rent_measure(df_filtered.cols), y)]]
            /\ pc' = "scatter"
            /\ UNCHANGED messages
    /\ UNCHANGED <<session, rendered, crash, df, subsets, hist, scatter, qq>>

\* States numpy's global generator may be in when a sample is drawn.
GlobalStates == {0, 7}

\* Lines 408-457: the scatter tab.
TabScatter ==
    /\ pc = "scatter"
    /\ IF ~({"deposit", "rent"} \subseteq df_filtered.cols)
       THEN /\ messages' = Append(messages, Msg("warning", "no_scatter_columns", NaNStr))
            /\ scatter' = [NoScatter EXCEPT !.status = "no_columns"]
            /\ UNCHANGED rendered
       ELSE \E g \in [1..3 -> GlobalStates] :
            /\ rendered' = rendered \cup {"max_points"}
            /\ scatter' = [status |-> "plotted",
                           max_points |-> w.max_points,
                           regions |-> [i \in 1..3 |->
                               LET idx == prep_scatter(<<seoul, df_a, df_b>>[i],
                                                       w.max_points, g[i])
                               IN [idx |-> idx,
                                   kind |-> IF idx = <<>> THEN "placeholder" ELSE "scatter"]]]
            /\ UNCHANGED messages
    /\ pc' = "qq"
    /\ UNCHANGED <<session, crash, df, subsets, hist, box, qq>>

\* Lines 461-583: the Q-Q tab.
TabQQ ==
    /\ pc = "qq"
    /\ IF "rent" \notin seoul.cols
       THEN /\ crash' = "KeyError_rent"
            /\ pc' = "crashed"
            /\ UNCHANGED qq
            /\ UNCHANGED <<rendered, messages>>
       ELSE LET col == building_col(seoul)
                text == IF col = NaNStr THEN <<>> ELSE w.search
                idx == [i \in 1..3 |->
                           IF col = NaNStr THEN <<>>
                           ELSE find_idx(<<seoul, df_a, df_b>>[i], col, text)]
                total == Cardinality(Labels(idx[1]) \cup Labels(idx[2]) \cup Labels(idx[3]))
            IN /\ rendered' = IF col = NaNStr THEN rendered ELSE rendered \cup {"search"}
               /\ messages' =
                     IF col = NaNStr
                     THEN Append(messages, Msg("caption", "search_disabled", NaNStr))
                     ELSE IF text = <<>> THEN messages
                     ELSE IF total = 0
                     THEN Append(messages, Msg("warning", "zero_results", NaNStr))
                     ELSE Append(messages, Msg("info", "found", NaNStr))
               /\ qq' = [status |-> "plotted",
                         searchable |-> col # NaNStr,
                         text |-> text,
                         panels |-> [i \in 1..3 |->
                                        qq_plot(<<seoul, df_a, df_b>>[i], col, idx[i])]]
               /\ pc' = "done"
               /\ UNCHANGED crash
    /\ UNCHANGED <<session, df, subsets, hist, box, scatter>>

\* ------------------------------------------------------------------ interactions
Ended == pc \in {"done", "stopped", "crashed"}

\* Streamlit reruns the script from its first line; the cache and the
\* widget values are all that is kept.
Rerun(w2) ==
    /\ Ended
    /\ left > 0
    /\ left' = left - 1
    /\ w' = w2
    /\ pc' = "load"
    /\ rendered' = {}
    /\ messages' = <<>>
    /\ crash' = "none"
    /\ df' = EmptyFrame
    /\ housing_types' = <<>>
    /\ selected_housing' = "ALL"
    /\ df_filtered' = EmptyFrame
    /\ all_gu' = <<>>
    /\ gu_a' = NaNStr
    /\ gu_b' = NaNStr
    /\ seoul' = EmptyFrame
    /\ df_a' = EmptyFrame
    /\ df_b' = EmptyFrame
    /\ hist' = NoHist
    /\ box' = NoBox
    /\ scatter' = NoScatter
    /\ qq' = NoQQ
    /\ UNCHANGED <<files, cache, loadCount, first_df>>

SelectHousing ==
    /\ "housing" \in rendered
    /\ \E i \in DOMAIN housing_types :
          /\ housing_types[i] # selected_housing
          /\ Rerun([w EXCEPT !.housing = housing_types[i]])

SelectGuA ==
    /\ "gu_a" \in rendered
    /\ \E i \in DOMAIN all_gu :
          /\ all_gu[i] # gu_a
          /\ Rerun([w EXCEPT !.gu_a.v = all_gu[i]])

SelectGuB ==
    /\ "gu_b" \in rendered
    /\ \E i \in DOMAIN all_gu :
          /\ all_gu[i] # gu_b
          /\ Rerun([w EXCEPT !.gu_b.v = all_gu[i]])

SetBins ==
    /\ "bins" \in rendered
    /\ \E b \in BinChoices \cap BinValues :
          /\ b # w.bins
          /\ Rerun([w EXCEPT !.bins = b])

SetMaxPoints ==
    /\ "max_points" \in rendered
    /\ \E m \in PointChoices \cap PointValues :
          /\ m # w.max_points
          /\ Rerun([w EXCEPT !.max_points = m])

Next ==
    \/ RunLoadData
    \/ CheckEmpty
    \/ Sidebar
    \/ Districts
    \/ Subsets
    \/ TabHist
    \/ TabBox
    \/ TabScatter
    \/ TabQQ
    \/ SelectHousing
    \/ SelectGuA
    \/ SelectGuB
    \/ SetBins
    \/ SetMaxPoints

Spec == Init /\ [][Next]_vars

\* ------------------------------------------------------------------ properties
Regions == <<seoul, df_a, df_b>>
HasMsg(level, what) ==
    \E i \in DOMAIN messages : messages[i].level = level /\ messages[i].what = what
RentPositive(r) == IsNum(r.rent) /\ Val(r.rent) > 0
Loaded == pc # "load"
SubsetsBuilt == "gu_a" \in rendered
NoPlotRan ==
    hist.status = "none" /\ box.status = "none" /\ scatter.status = "none"
    /\ qq.status = "none"
NoSubsetBuilt ==
    gu_a = NaNStr /\ gu_b = NaNStr /\ seoul = EmptyFrame /\ df_a = EmptyFrame
    /\ df_b = EmptyFrame
Existing == { h \in DOMAIN files : files[h].exists }

\* C1 (as stated): every row of the table load_data returns has monthly
\* rent > 0 and an address that contains the city marker, whatever columns
\* the source files carry.
C1_AllRowsClean ==
    Loaded => \A i \in DOMAIN df.rows :
                 RentPositive(df.rows[i].r) /\ str_contains(df.rows[i].r.sigungu)

\* C1 (amended): in every row of the table load_data returns, the monthly
\* rent is either missing (the row's file has no rent column) or > 0, and the
\* address is either missing (the row's file has no address column) or
\* contains the city marker; when every existing file carries both columns,
\* every row has rent > 0 and an address that contains the marker.
C1_RowsCleanWherePresent ==
    Loaded =>
      /\ \A i \in DOMAIN df.rows :
            /\ IsNum(df.rows[i].r.rent) => Val(df.rows[i].r.rent) > 0
            /\ df.rows[i].r.sigungu # NaN => str_contains(df.rows[i].r.sigungu)
      /\ (\A h \in Existing : {"rent", "sigungu"} \subseteq files[h].cols)
            => \A i \in DOMAIN df.rows :
                  RentPositive(df.rows[i].r) /\ str_contains(df.rows[i].r.sigungu)

\* C1 witness: a loaded table built from files that differ in their columns,
\* holding a row with a positive rent and a row whose rent is missing.
C1_Witness ==
    /\ Loaded
    /\ \E h1, h2 \in Existing : "rent" \in files[h1].cols /\ "rent" \notin files[h2].cols
    /\ \E i, j \in DOMAIN df.rows :
          RentPositive(df.rows[i].r) /\ ~IsNum(df.rows[j].r.rent)

\* C2: no run ends in an unhandled crash; a run that stops early stopped at
\* one of the two hard stops (empty table, fewer than two districts); a run
\* that reaches the end has produced every plot or disabled it with a warning.
C2_NoCrash ==
    /\ pc # "crashed"
    /\ pc = "stopped" => HasMsg("error", "no_data") \/ HasMsg("error", "few_districts")
    /\ pc = "done" =>
          /\ hist.status \in {"plotted", "warning"}
          /\ box.status = "plotted" \/ HasMsg("warning", "no_year_column")
                \/ HasMsg("warning", "no_valid_years")
          /\ scatter.status = "plotted" \/ HasMsg("warning", "no_scatter_columns")
          /\ qq.status = "plotted"

\* C3: a run in which the unified table is empty, or the housing-type-filtered
\* set has fewer than two distinct non-null districts, reports an error,
\* builds no subset and runs no plot preparer; a run in which a plot preparer
\* ran had a non-empty table and at least two districts.
C3_HardStopsGate ==
    /\ (Ended /\ (IsEmpty(df) \/ Cardinality(Unique(df_filtered, "gu")) < 2))
          => /\ HasMsg("error", "no_data") \/ HasMsg("error", "few_districts")
             /\ NoSubsetBuilt
             /\ NoPlotRan
    /\ ~NoPlotRan => ~IsEmpty(df) /\ Cardinality(Unique(df_filtered, "gu")) >= 2

\* The number of rows of a file that the loader keeps.
CleanCount(f) ==
    SumN(SelectSeq(f.rows, LAMBDA g :
        /\ "sigungu" \in f.cols => \E k \in DOMAIN g.r.sigungu : g.r.sigungu[k] \in MarkerTokens
        /\ "rent" \in f.cols => /\ IsNum(to_numeric(str_replace(g.r.rent)))
                                /\ Val(to_numeric(str_replace(g.r.rent))) > 0))

\* C4: for every subset of the three source files that exists, load_data
\* emits exactly one warning per missing file, and returns the cleaned rows
\* of exactly the files that exist: each row carries the label of an existing
\* file or that file's own housing-type cell, and the row count is the sum of
\* the kept rows of the existing files; with no file it is the empty table.
C4_MissingFileSkipped ==
    Loaded =>
      /\ \A h \in DOMAIN files :
            Cardinality({ i \in DOMAIN messages :
                            messages[i] = Msg("warning", "missing_file", h) })
               = IF files[h].exists THEN 0 ELSE 1
      /\ NRows(df) = SumN([i \in 1..3 |->
                              [n |-> IF files[file_paths[i]].exists
                                     THEN CleanCount(files[file_paths[i]]) ELSE 0]])
      /\ \A i \in DOMAIN df.rows :
            \E h \in Existing :
               \/ "htype" \notin files[h].cols /\ df.rows[i].r.htype = h
               \/ /\ "htype" \in files[h].cols
                  /\ \E k \in DOMAIN files[h].rows : files[h].rows[k].r.htype = df.rows[i].r.htype
      /\ Existing = {} => df = EmptyFrame

\* C4 witness: a loaded, non-empty table with exactly one file missing.
C4_Witness ==
    /\ pc = "check"
    /\ Cardinality(Existing) = 2
    /\ Len(messages) = 1
    /\ NRows(df) > 0

\* C5: load_data's body runs at most once per session; after any sequence of
\* interactions the unified table of a run is the table the first load
\* produced, and the subsets of the run are computed from it with the run's
\* own selections.
C5_TableBuiltOnce ==
    /\ loadCount <= 1
    /\ Loaded => df = first_df
    /\ "housing" \in rendered => df_filtered = filter_housing(first_df, selected_housing)
    /\ SubsetsBuilt =>
          /\ seoul = filter_housing(first_df, selected_housing)
          /\ df_a = Eq(filter_housing(first_df, selected_housing), "gu", gu_a)
          /\ df_b = Eq(filter_housing(first_df, selected_housing), "gu", gu_b)

\* C5 witness: a run after two interactions that changed the housing type
\* and a district, with its subsets built.
C5_Witness ==
    /\ left = 0
    /\ MaxInteractions >= 2
    /\ pc = "done"
    /\ loadCount = 1
    /\ selected_housing # "ALL"
    /\ gu_a # all_gu[1]

RECURSIVE SumHeights(_, _)
SumHeights(h, b) == IF b < 0 THEN 0 ELSE h[b] + SumHeights(h, b - 1)

\* C6: in a plotted histogram, every panel drawn from at least one retained
\* rent has bar heights that sum to 100 percent (heights are kept in units
\* of 1/n percent, n the retained count of the panel's subset).
C6_HeightsSumTo100 ==
    hist.status = "plotted" =>
      \A i \in DOMAIN hist.panels :
         (hist.panels[i].kind = "hist" /\ hist.panels[i].n >= 1)
            => SumHeights(hist.panels[i].heights, hist.bins - 1) = 100 * hist.panels[i].n

\* C6 witness: a plotted panel with several retained rents, one of them equal
\* to the shared bound (on the right edge of the last bin) and one below it.
C6_Witness ==
    /\ hist.status = "plotted"
    /\ \E i \in DOMAIN hist.panels :
          /\ hist.panels[i].kind = "hist"
          /\ hist.panels[i].n >= 2
          /\ hist.panels[i].heights[hist.bins - 1] > 0
          /\ \E b \in 0..(hist.bins - 2) : hist.panels[i].heights[b] > 0
          /\ \E k \in DOMAIN Regions[i].rows :
                RentPositive(Regions[i].rows[k].r)
                /\ 100 * Val(Regions[i].rows[k].r.rent) = hist.x_max

\* The number of rents of a subset the histogram retains: present, positive
\* and not above the shared bound.
Retained(d, x100) ==
    SumN(SelectSeq(d.rows, LAMBDA g : RentPositive(g.r) /\ 100 * Val(g.r.rent) <= x100))

\* C7: in a plotted histogram, a subset with zero retained rents is rendered
\* as the empty placeholder, never as a histogram drawn from zero points.
C7_EmptyIsPlaceholder ==
    hist.status = "plotted" =>
      \A i \in DOMAIN hist.panels :
         Retained(Regions[i], hist.x_max) = 0 => hist.panels[i].kind = "placeholder"

\* The groups of d2 that carry the index labels of group g.
Images(d2, g) == { k \in DOMAIN d2.rows : d2.rows[k].first = g.first }

\* C8: in a plotted box-plot tab, for each region every row that has both a
\* construction year and the rent measure is in exactly one bucket, "new"
\* when its age is <= 20 and "old" when it is > 20; a row missing either
\* value is in neither; the two bucket counts sum to the region's retained
\* row count.
C8_AgePartition ==
    box.status = "plotted" =>
      \A i \in DOMAIN box.regions :
         LET src == Regions[i]
             d2 == box.regions[i].d
             both(r) == IsNum(r.year) /\ IsNum(r[box.rent_col])
         IN /\ \A k \in DOMAIN src.rows :
                  IF both(src.rows[k].r)
                  THEN /\ Cardinality(Images(d2, src.rows[k])) = 1
                       /\ \A m \in Images(d2, src.rows[k]) :
                             /\ d2.rows[m].n = src.rows[k].n
                             /\ d2.rows[m].r.age_group =
                                   IF box.current_year - Val(src.rows[k].r.year) <= AGE_CUTOFF
                                   THEN "new" ELSE "old"
                  ELSE Images(d2, src.rows[k]) = {}
            /\ \A m \in DOMAIN d2.rows :
                  \E k \in DOMAIN src.rows : m \in Images(d2, src.rows[k])
            /\ counts_sum(box.regions[i].counts)
                  = SumN(SelectSeq(src.rows, LAMBDA g : both(g.r)))
            /\ box.regions[i].n = NRows(d2)

\* C8 witness: a plotted region with rows in both buckets, a row of age
\* exactly 20, and a row without a construction year.
C8_Witness ==
    /\ box.status = "plotted"
    /\ \E i \in DOMAIN box.regions :
          /\ IsNum(box.regions[i].counts["new"])
          /\ IsNum(box.regions[i].counts["old"])
          /\ \E m \in DOMAIN box.regions[i].d.rows :
                box.regions[i].d.rows[m].r.age = AGE_CUTOFF
          /\ \E k \in DOMAIN Regions[i].rows : ~IsNum(Regions[i].rows[k].r.year)

Min(a, b) == IF a < b THEN a ELSE b

ScatterOk(r) ==
    IsNum(r.deposit) /\ IsNum(r.rent) /\ Val(r.deposit) > 0 /\ Val(r.rent) > 0

\* C9: in a plotted scatter tab, each region's sample has
\* min(cap, number of rows with deposit > 0 and rent > 0) rows; every
\* sampled row is a row of the region with deposit > 0 and rent > 0; no row
\* is sampled twice; two regions with the same input get the same sample.
C9_ScatterSample ==
    scatter.status = "plotted" =>
      /\ \A i \in DOMAIN scatter.regions :
            LET idx == scatter.regions[i].idx
                src == Regions[i]
            IN /\ Len(idx) = Min(scatter.max_points,
                                 SumN(SelectSeq(src.rows, LAMBDA g : ScatterOk(g.r))))
               /\ \A p \in DOMAIN idx :
                     \E k \in DOMAIN src.rows :
                        /\ src.rows[k].first <= idx[p]
                        /\ idx[p] < src.rows[k].first + src.rows[k].n
                        /\ ScatterOk(src.rows[k].r)
               /\ Cardinality({ idx[p] : p \in DOMAIN idx }) = Len(idx)
      /\ \A i, j \in DOMAIN scatter.regions :
            Regions[i] = Regions[j] => scatter.regions[i].idx = scatter.regions[j].idx

\* C9 witness: two regions with the same input of more rows than the cap,
\* each sampled down to the cap.
C9_Witness ==
    /\ scatter.status = "plotted"
    /\ gu_a = gu_b
    /\ NRows(df_a) > scatter.max_points
    /\ Len(scatter.regions[2].idx) = scatter.max_points
    /\ Len(scatter.regions[3].idx) = scatter.max_points

\* C10: when an input file carries the per-area rent column, the box-plot
\* tab uses it as the rent measure; it uses the raw monthly rent only when
\* no input file carries that column.
C10_PerAreaRentUsed ==
    box.status = "plotted" =>
      box.rent_col = IF \E h \in Existing : "rent_per_area" \in files[h].cols
                     THEN "rent_per_area" ELSE "rent"

\* Some existing input file carries a listing-name column.
HasNameCol == \E h \in Existing : \E i \in DOMAIN NameCols : NameCols[i] \in files[h].cols

\* The index labels of the rows of region d that have a Q-Q point (a rent)
\* and whose listing name contains text, case-insensitively.
Matching(d, text) ==
    LET col == building_col(d)
    IN IF col = NaNStr THEN {}
       ELSE Labels(SelectSeq(d.rows, LAMBDA g : /\ IsNum(g.r.rent)
                                                /\ g.r[col] # <<>>
                                                /\ contains(g.r[col], text)))

\* C11: when an input file carries a listing-name column and the Q-Q tab is
\* produced, the search box is offered to the user; with a non-empty search
\* text every plotted panel highlights exactly the points of the rows whose
\* listing name contains the text, labels at most 3 of them, and a search
\* that matches no row of any region is reported by a zero-results warning
\* while the three panels are still produced.
C11_SearchHighlights ==
    (qq.status = "plotted" /\ HasNameCol) =>
      /\ "search" \in rendered
      /\ qq.searchable
      /\ Len(qq.panels) = 3
      /\ w.search # <<>> =>
            /\ qq.text = w.search
            /\ \A i \in DOMAIN qq.panels :
                  /\ qq.panels[i].kind = "qq" =>
                        qq.panels[i].highlighted = Matching(Regions[i], w.search)
                  /\ qq.panels[i].labelled <= 3
            /\ (\A i \in DOMAIN qq.panels : Matching(Regions[i], w.search) = {})
                  => HasMsg("warning", "zero_results")
====
